---- MODULE Spec2Model ----
(***************************************************************************)
(* Model of src/agent.py: the input normalizer coerce_to_valid_json and    *)
(* the six tool functions registered with the agent loop.                  *)
(*                                                                         *)
(* Strings that the tools parse are modelled as concrete syntax: a text is *)
(* a record [k, q, toks, kv] where k is the syntactic category, q the      *)
(* quote style of a string literal, toks its source tokens (plain          *)
(* characters and backslash escapes, exactly as written in the text) and   *)
(* kv the key/value members of a mapping display.  The two parsers used by *)
(* the code, ast.literal_eval and json.loads, and the serializer           *)
(* json.dumps are operators over this syntax, each following the grammar   *)
(* of its own language, so that they disagree where Python and JSON do.    *)
(***************************************************************************)
EXTENDS Integers, Sequences, FiniteSets, TLC

VARIABLES env, calls, last, total, reached, norm

vars == <<env, calls, last, total, reached, norm>>

(***************************************************************************)
(* Bounds of the model.                                                    *)
(***************************************************************************)
\* longest string literal, in source tokens, given to the normalizer
MaxToks == 2
\* number of tool invocations the agent loop makes in one run
MaxCalls == 2

(***************************************************************************)
(* Source tokens of string literals and the characters they denote.        *)
(***************************************************************************)
\* plain characters, raw quote characters, and backslash escapes
PlainToks == {"a", "b", "/"}
RawQuoteToks == {"'", "\""}
EscToks == {"\\n", "\\/", "\\\\", "\\'", "\\\""}
Toks == PlainToks \cup RawQuoteToks \cup EscToks

LF == "\n"
BS == "\\"

RECURSIVE Flatten(_)
Flatten(ss) == IF ss = <<>> THEN <<>> ELSE Head(ss) \o Flatten(Tail(ss))

SeqsUpTo(S, n) == UNION {[1..m -> S] : m \in 0..n}

(***************************************************************************)
(* Decoded values (Python objects): [t, s, e].                             *)
(*   t = "str"  : s is the sequence of characters                          *)
(*   t = "int" / "bool" / "none" : s = <<literal word>>                    *)
(*   t = "list" / "tuple" / "set" : e is the sequence of elements          *)
(*   t = "dict" : e is the sequence of [key, val] items, keys distinct     *)
(*   t = "fail" : the parse or serialization raised; s = <<class>>         *)
(***************************************************************************)
VStr(cs) == [t |-> "str", s |-> cs, e |-> <<>>]
VAtom(ty, w) == [t |-> ty, s |-> <<w>>, e |-> <<>>]
VSeq(ty, elems) == [t |-> ty, s |-> <<>>, e |-> elems]
VDict(items) == [t |-> "dict", s |-> <<>>, e |-> items]
Raise(cls) == [t |-> "fail", s |-> <<cls>>, e |-> <<>>]
Failed(v) == v.t = "fail"

(***************************************************************************)
(* Texts (concrete syntax).                                                *)
(***************************************************************************)
TStr(q, toks) == [k |-> "str", q |-> q, toks |-> toks, kv |-> <<>>]
TKw(w) == [k |-> "kw", q |-> "", toks |-> <<w>>, kv |-> <<>>]
TNum(w) == [k |-> "num", q |-> "", toks |-> <<w>>, kv |-> <<>>]
TSeq(br, ws) == [k |-> br, q |-> "", toks |-> ws, kv |-> <<>>]
TObj(kv) == [k |-> "obj", q |-> "", toks |-> <<>>, kv |-> kv]
\* the empty string, and prose such as "not json at all"
TEmpty == [k |-> "empty", q |-> "", toks |-> <<>>, kv |-> <<>>]
TJunk == [k |-> "junk", q |-> "", toks |-> <<>>, kv |-> <<>>]
KV(key, val) == [key |-> key, val |-> val]

(***************************************************************************)
(* Mapping items: a later item with an equal key replaces the value of the *)
(* earlier one (dict display in Python, object_pairs in json.loads).       *)
(***************************************************************************)
HasKey(items, key) == \E i \in 1..Len(items) : items[i].key = key
Lookup(items, key) == items[CHOOSE i \in 1..Len(items) : items[i].key = key].val
Put(items, key, val) ==
    IF HasKey(items, key)
    THEN [i \in 1..Len(items) |->
            IF items[i].key = key THEN KV(key, val) ELSE items[i]]
    ELSE Append(items, KV(key, val))

RECURSIVE Dedup(_, _)
Dedup(items, acc) ==
    IF items = <<>> THEN acc
    ELSE Dedup(Tail(items), Put(acc, Head(items).key, Head(items).val))

\* Python == on decoded values: dicts compare without regard to item order
DeepEq(v, w) ==
    IF v.t = "dict" /\ w.t = "dict"
    THEN /\ Len(v.e) = Len(w.e)
         /\ \A i \in 1..Len(v.e) :
              HasKey(w.e, v.e[i].key) /\ Lookup(w.e, v.e[i].key) = v.e[i].val
    ELSE v = w

(***************************************************************************)
(* ast.literal_eval                                                        *)
(***************************************************************************)
\* characters one token of a Python string literal denotes; an unknown
\* escape such as \/ keeps its backslash
PyTok(tk) ==
    CASE tk = "\\n" -> <<LF>>
      [] tk = "\\/" -> <<BS, "/">>
      [] tk = "\\\\" -> <<BS>>
      [] tk = "\\'" -> <<"'">>
      [] tk = "\\\"" -> <<"\"">>
      [] OTHER -> <<tk>>

\* a raw quote character of the literal's own style ends the literal early
PyStrOk(q, toks) ==
    \A i \in 1..Len(toks) :
        /\ (q = "sq" => toks[i] # "'")
        /\ (q = "dq" => toks[i] # "\"")

PyLeaf(x) ==
    CASE x.k = "str" ->
            IF PyStrOk(x.q, x.toks)
            THEN VStr(Flatten([i \in 1..Len(x.toks) |-> PyTok(x.toks[i])]))
            ELSE Raise("SyntaxError")
      [] x.k = "kw" ->
            CASE x.toks[1] = "True" -> VAtom("bool", "True")
              [] x.toks[1] = "False" -> VAtom("bool", "False")
              [] x.toks[1] = "None" -> VAtom("none", "None")
              [] OTHER -> Raise("ValueError")
      [] x.k = "num" -> VAtom("int", x.toks[1])
      [] x.k \in {"list", "tuple", "set"} ->
            VSeq(x.k, [i \in 1..Len(x.toks) |-> VAtom("int", x.toks[i])])
      [] OTHER -> Raise("SyntaxError")

Hashable(v) == v.t \notin {"list", "set", "dict"}

literal_eval(x) ==
    IF x.k # "obj" THEN PyLeaf(x)
    ELSE LET ks == [i \in 1..Len(x.kv) |-> PyLeaf(x.kv[i].key)]
             vs == [i \in 1..Len(x.kv) |-> PyLeaf(x.kv[i].val)]
             n == Len(x.kv)
         IN  IF \E i \in 1..n : (ks[i] = Raise("SyntaxError") \/ vs[i] = Raise("SyntaxError"))
             THEN Raise("SyntaxError")
             ELSE IF \E i \in 1..n : Failed(ks[i]) \/ Failed(vs[i])
             THEN Raise("ValueError")
             ELSE IF \E i \in 1..n : ~Hashable(ks[i])
             THEN Raise("TypeError")
             ELSE VDict(Dedup([i \in 1..n |-> KV(ks[i], vs[i])], <<>>))

(***************************************************************************)
(* json.loads                                                              *)
(***************************************************************************)
\* JSON has the escape \/ (a solidus) and has no escape \'
JsonTokOk(tk) == tk \notin {"\"", "\\'"}

JsonTok(tk) ==
    CASE tk = "\\n" -> <<LF>>
      [] tk = "\\/" -> <<"/">>
      [] tk = "\\\\" -> <<BS>>
      [] tk = "\\\"" -> <<"\"">>
      [] OTHER -> <<tk>>

JsonStrOk(x) ==
    x.k = "str" /\ x.q = "dq" /\ \A i \in 1..Len(x.toks) : JsonTokOk(x.toks[i])

JsonLeaf(x) ==
    CASE x.k = "str" ->
            IF JsonStrOk(x)
            THEN VStr(Flatten([i \in 1..Len(x.toks) |-> JsonTok(x.toks[i])]))
            ELSE Raise("JSONDecodeError")
      [] x.k = "kw" ->
            CASE x.toks[1] = "true" -> VAtom("bool", "True")
              [] x.toks[1] = "false" -> VAtom("bool", "False")
              [] x.toks[1] = "null" -> VAtom("none", "None")
              [] OTHER -> Raise("JSONDecodeError")
      [] x.k = "num" -> VAtom("int", x.toks[1])
      [] x.k = "list" ->
            VSeq("list", [i \in 1..Len(x.toks) |-> VAtom("int", x.toks[i])])
      [] OTHER -> Raise("JSONDecodeError")

json_loads(x) ==
    IF x.k # "obj" THEN JsonLeaf(x)
    ELSE LET n == Len(x.kv)
             vs == [i \in 1..n |-> JsonLeaf(x.kv[i].val)]
         IN  IF \E i \in 1..n : ~JsonStrOk(x.kv[i].key) \/ Failed(vs[i])
             THEN Raise("JSONDecodeError")
             ELSE VDict(Dedup([i \in 1..n |->
                                 KV(JsonLeaf(x.kv[i].key), vs[i])], <<>>))

(***************************************************************************)
(* json.dumps                                                              *)
(***************************************************************************)
\* the token json.dumps writes for one character (a solidus is not escaped)
DumpChar(c) ==
    CASE c = LF -> "\\n"
      [] c = BS -> "\\\\"
      [] c = "\"" -> "\\\""
      [] OTHER -> c

\* fault variant: the string is written the way repr() writes it
DumpStrRepr(cs) == TStr("sq", [i \in 1..Len(cs) |-> DumpChar(cs[i])])

DumpStr(cs) == TStr("dq", [i \in 1..Len(cs) |-> DumpChar(cs[i])])

Dumpable(v) == v.t \in {"str", "int", "bool", "none", "list", "tuple"}

DumpLeaf(v) ==
    CASE v.t = "str" -> DumpStr(v.s)
      [] v.t = "int" -> TNum(v.s[1])
      [] v.t = "bool" -> TKw(IF v.s[1] = "True" THEN "true" ELSE "false")
      [] v.t = "none" -> TKw("null")
      [] v.t \in {"list", "tuple"} ->
            TSeq("list", [i \in 1..Len(v.e) |-> v.e[i].s[1]])

\* dict keys that are not strings are written as strings; other key types
\* (a tuple) are refused
DumpKey(kv) ==
    CASE kv.t = "str" -> DumpStr(kv.s)
      [] kv.t = "int" -> TStr("dq", kv.s)
      [] kv.t = "bool" -> TStr("dq", <<IF kv.s[1] = "True" THEN "true" ELSE "false">>)
      [] kv.t = "none" -> TStr("dq", <<"null">>)

\* the result is a text, or Raise("TypeError") when a value has no JSON form
json_dumps(v) ==
    IF v.t # "dict"
    THEN IF Dumpable(v) THEN DumpLeaf(v) ELSE Raise("TypeError")
    ELSE IF \E i \in 1..Len(v.e) :
               \/ v.e[i].key.t \notin {"str", "int", "bool", "none"}
               \/ ~Dumpable(v.e[i].val)
         THEN Raise("TypeError")
         ELSE TObj([i \in 1..Len(v.e) |->
                      KV(DumpKey(v.e[i].key), DumpLeaf(v.e[i].val))])

IsRaise(x) == "t" \in DOMAIN x

(***************************************************************************)
(* Exception classes.  `except Exception` catches the subclasses of        *)
(* Exception; a bare `except:` catches every class.                        *)
(***************************************************************************)
BaseOnly == {"SystemExit", "KeyboardInterrupt", "GeneratorExit"}

Catches(handler, cls) ==
    \/ handler = "bare"
    \/ handler = "Exception" /\ cls \notin BaseOnly
    \/ handler = cls

(***************************************************************************)
(* coerce_to_valid_json: try literal_eval then json.dumps; the bare except *)
(* returns the input unmodified.  The result is [ret, exc]: the returned   *)
(* text and the exception class that left the function ("none" if none).   *)
(***************************************************************************)
\* fault variant: `except ValueError:` in place of the bare except
CoerceHandlerValueError == "ValueError"

CoerceHandler == "bare"

CoerceBody(input_str) ==
    LET python_obj == literal_eval(input_str)
    IN  IF Failed(python_obj) THEN python_obj ELSE json_dumps(python_obj)

coerce_to_valid_json(input_str) ==
    LET r == CoerceBody(input_str)
    IN  IF ~IsRaise(r) THEN [ret |-> r, exc |-> "none"]
        ELSE IF Catches(CoerceHandler, r.s[1])
        THEN [ret |-> input_str, exc |-> "none"]
        ELSE [ret |-> TEmpty, exc |-> r.s[1]]

(***************************************************************************)
(* Inputs of the normalizer.                                               *)
(***************************************************************************)
\* longest string literal, in source tokens, inside a mapping
MaxValToks == 1

Quotes == {"dq", "sq"}
NormStrings == {TStr(q, t) : q \in Quotes, t \in SeqsUpTo(Toks, MaxToks)}
NormWords ==
    {TKw(w) : w \in {"true", "false", "null", "True", "False", "None"}}
    \cup {TNum(w) : w \in {"0", "5"}}
    \cup {TSeq("list", <<>>), TSeq("list", <<"1", "2">>),
          TSeq("tuple", <<"1", "2">>), TSeq("set", <<"1", "2">>)}
ObjVals == {TStr(q, t) : q \in Quotes, t \in SeqsUpTo(Toks, MaxValToks)} \cup NormWords
ObjKeys == {TStr("dq", <<"a">>), TStr("sq", <<"a">>), TStr("sq", <<"b">>),
            TNum("1"), TSeq("tuple", <<"1", "2">>), TSeq("list", <<"1">>)}
PairKeys == {TStr("sq", <<"a">>), TStr("sq", <<"b">>)}
PairVals == {TStr("sq", <<"a">>), TNum("5"), TKw("None")}
NormObjs ==
    {TObj(<<>>)}
    \cup {TObj(<<KV(k, v)>>) : k \in ObjKeys, v \in ObjVals}
    \cup {TObj(<<KV(k1, v1), KV(k2, v2)>>) :
            k1 \in PairKeys, k2 \in PairKeys, v1 \in PairVals, v2 \in PairVals}
NormInputs == {TEmpty, TJunk} \cup NormStrings \cup NormWords \cup NormObjs

NormIdle == [phase |-> "idle", in |-> TEmpty, out |-> TEmpty, exc |-> "none"]

(***************************************************************************)
(* Process environment.  os.getenv gives None for an unset variable and "" *)
(* for an empty one; both are falsy.                                       *)
(***************************************************************************)
EnvVars == {"GOOGLE_API_KEY", "GOOGLE_CSE_CX", "GOOGLE_CLIENT_ID",
            "GOOGLE_CLIENT_SECRET", "GMAIL_REFRESH_TOKEN",
            "CALENDAR_REFRESH_TOKEN"}
\* every set of variables may be unset; one variable, or all, may be empty
Environments ==
    [EnvVars -> {"unset", "v"}]
    \cup {[v \in EnvVars |-> IF v = w THEN "" ELSE "v"] : w \in EnvVars}
    \cup {[v \in EnvVars |-> ""]}

getenv(e, name) == e[name]
EnvTruthy(x) == x \notin {"unset", ""}

(***************************************************************************)
(* Outcome of one tool call: the returned string as its f-string pieces,   *)
(* the exception class that propagated to the caller ("none" if the call   *)
(* returned), the outbound requests issued in order, each with what the    *)
(* remote side answered, and whether an HTTP response body was read.       *)
(***************************************************************************)
Out(ret, exc, reqs, read) == [ret |-> ret, exc |-> exc, reqs |-> reqs, read |-> read]
Return(ret, reqs) == Out(ret, "none", reqs, FALSE)
Req(api, arg, resp) == [api |-> api, arg |-> arg, resp |-> resp]

\* every tool but the calculator ends in `except Exception as e: return f"Error: {e}"`
ToolHandler == "Exception"

Except(prefix, cls, reqs, read) ==
    IF Catches(ToolHandler, cls)
    THEN Out(<<prefix, cls>>, "none", reqs, read)
    ELSE Out(<<>>, cls, reqs, read)

(***************************************************************************)
(* calculator                                                              *)
(***************************************************************************)
TExpr(w) == [k |-> "expr", q |-> "", toks |-> <<w>>, kv |-> <<>>]

\* eval() of representative expressions: a value, or the class raised
Eval(expression) ==
    CASE expression = TExpr("1+2") -> VAtom("int", "3")
      [] expression = TExpr("1/0") -> Raise("ZeroDivisionError")
      [] expression = TExpr("x") -> Raise("NameError")
      [] expression = TExpr("__import__('sys').exit()") -> Raise("SystemExit")
      [] OTHER -> Raise("SyntaxError")

calculator(expression) ==
    LET result == Eval(expression)
    IN  IF Failed(result)
        THEN Except("Error:", result.s[1], <<>>, FALSE)
        ELSE Return(<<result.s[1]>>, <<>>)

(***************************************************************************)
(* web_search                                                              *)
(***************************************************************************)
\* behaviour of requests.get: it raises, or answers with a status and body
HttpBehaviours ==
    {[raise |-> "ConnectionError", status |-> "", body |-> ""]}
    \cup {[raise |-> "none", status |-> st, body |-> ""] : st \in {"404", "500"}}
    \cup {[raise |-> "none", status |-> "200", body |-> b] :
            b \in {"item_full", "item_bare", "items_empty", "no_items", "not_json"}}

\* fault variant: a 404 answer is taken for a success
StatusOkLoose(status) == status \in {"200", "404"}

\* response.status_code == 200
StatusOk(status) == status = "200"

web_search(query, e, http) ==
    LET google_api_key == getenv(e, "GOOGLE_API_KEY")
        google_cx == getenv(e, "GOOGLE_CSE_CX")
        get == <<Req("customsearch.get",
                     [key |-> google_api_key, cx |-> google_cx, q |-> query,
                      dateRestrict |-> "m6"],
                     IF http.raise # "none" THEN http.raise ELSE http.status)>>
    IN  IF ~EnvTruthy(google_api_key) \/ ~EnvTruthy(google_cx)
        THEN Return(<<"Google CSE API key or CX ID is missing">>, <<>>)
        ELSE IF http.raise # "none"
        THEN Except("Error: ", http.raise, get, FALSE)
        ELSE IF StatusOk(http.status)
        THEN CASE http.body = "not_json" ->
                    Except("Error: ", "JSONDecodeError", get, TRUE)
               [] http.body = "item_full" ->
                    Out(<<"Title: ", "t1", "\nSnippet: ", "s1", "\nLink: ", "l1">>,
                        "none", get, TRUE)
               [] http.body = "item_bare" ->
                    Out(<<"Title: ", "No title available", "\nSnippet: ",
                          "No snippet available", "\nLink: ", "No link available">>,
                        "none", get, TRUE)
               [] OTHER -> Out(<<"No search results found.">>, "none", get, TRUE)
        ELSE Return(<<"Error: Unable to fetch search results. Status Code: ",
                      http.status>>, get)

(***************************************************************************)
(* gmail_get_emails                                                        *)
(***************************************************************************)
\* most messages / events an API answer lists in the model
MaxItems == 2

\* fault variant: the refresh token is not checked
GmailCredsMissingNoToken(e) ==
    ~(/\ EnvTruthy(getenv(e, "GOOGLE_CLIENT_ID"))
      /\ EnvTruthy(getenv(e, "GOOGLE_CLIENT_SECRET")))

GmailCredsMissing(e) ==
    ~(/\ EnvTruthy(getenv(e, "GOOGLE_CLIENT_ID"))
      /\ EnvTruthy(getenv(e, "GOOGLE_CLIENT_SECRET"))
      /\ EnvTruthy(getenv(e, "GMAIL_REFRESH_TOKEN")))

\* behaviour of messages.list (raise, or the number of messages listed) and
\* of each messages.get (raise, a message with headers, a bare message)
ListBehaviours ==
    {[list |-> "HttpError", gets |-> <<>>]}
    \cup {[list |-> "ok", gets |-> g] :
            g \in SeqsUpTo({"full", "bare", "HttpError"}, MaxItems)}

Summary(kind) ==
    IF kind = "full"
    THEN <<"From: ", "f1", "\nSubject: ", "j1", "\nSnippet: ", "n1", "\n">>
    ELSE <<"From: ", "Unknown Sender", "\nSubject: ", "No Subject",
           "\nSnippet: ", "", "\n">>

RECURSIVE Join(_)
Join(parts) ==
    IF parts = <<>> THEN <<>>
    ELSE IF Len(parts) = 1 THEN parts[1]
    ELSE parts[1] \o <<"\n">> \o Join(Tail(parts))

FirstRaise(gets) ==
    IF \E i \in 1..Len(gets) : gets[i] = "HttpError"
    THEN CHOOSE i \in 1..Len(gets) :
            gets[i] = "HttpError" /\ \A j \in 1..(i - 1) : gets[j] # "HttpError"
    ELSE 0

gmail_get_emails(query, e, api) ==
    LET list == <<Req("messages.list", [userId |-> "me", q |-> query, maxResults |-> 5],
                      api.list)>>
        n == Len(api.gets)
        stop == FirstRaise(api.gets)
        gets(m) == [i \in 1..m |->
                      Req("messages.get", [userId |-> "me", id |-> i], api.gets[i])]
    IN  IF GmailCredsMissing(e)
        THEN Return(<<"Missing one or more Gmail OAuth credentials in environment variables!">>,
                    <<>>)
        ELSE IF api.list # "ok" THEN Except("Error: ", api.list, list, FALSE)
        ELSE IF n = 0 THEN Return(<<"No emails found for the given query.">>, list)
        ELSE IF stop # 0 THEN Except("Error: ", "HttpError", list \o gets(stop), FALSE)
        ELSE Return(Join([i \in 1..n |-> Summary(api.gets[i])]), list \o gets(n))

(***************************************************************************)
(* gmail_send_email                                                        *)
(***************************************************************************)
Key(name) == VStr(<<name>>)
None == VAtom("none", "None")

\* dict.get(name): the value, or None when the key is absent
Get(d, name) == IF HasKey(d.e, Key(name)) THEN Lookup(d.e, Key(name)) ELSE None

\* Python truth value of a decoded value
Truthy(v) ==
    CASE v.t = "str" -> v.s # <<>>
      [] v.t = "int" -> v.s # <<"0">>
      [] v.t = "bool" -> v.s = <<"True">>
      [] v.t = "none" -> FALSE
      [] OTHER -> v.e # <<>>

HasBreak(cs) == \E i \in 1..Len(cs) : cs[i] = LF
BreakAt(cs) == CHOOSE i \in 1..Len(cs) : cs[i] = LF /\ \A j \in 1..(i - 1) : cs[j] # LF

Header(name, cs) == [name |-> name, value |-> cs]
HeaderLine(h) == <<h.name, ": ">> \o h.value \o <<LF>>

\* how the installed email package treats a header value with a line break:
\* it refuses to generate the message, or it writes the break as it stands
HeaderPolicies == {"strict", "lenient"}

\* fault variant: the recipient and the subject are set the wrong way round
MIMEMessageSwapped(to, subject, body, policy) ==
    IF body.t # "str" \/ to.t # "str" \/ subject.t # "str"
    THEN Raise("AttributeError")
    ELSE [headers |-> <<Header("to", subject.s), Header("subject", to.s)>>,
          body |-> body.s]

(***************************************************************************)
(* MIMEText(body) with the to and subject headers set, as as_bytes() puts  *)
(* it on the wire and a receiver reads it back: [headers, body], or the    *)
(* exception raised.  A header value with a line break written as it       *)
(* stands ends the header block there: the rest of the value and the       *)
(* headers after it arrive as body text.                                   *)
(***************************************************************************)
MIMEMessage(to, subject, body, policy) ==
    IF body.t # "str" \/ to.t # "str" \/ subject.t # "str"
    THEN Raise("AttributeError")
    ELSE LET hs == <<Header("Content-Type", <<"text/plain; charset=\"us-ascii\"">>),
                     Header("MIME-Version", <<"1.0">>),
                     Header("Content-Transfer-Encoding", <<"7bit">>),
                     Header("to", to.s),
                     Header("subject", subject.s)>>
             broken == {i \in 1..Len(hs) : HasBreak(hs[i].value)}
         IN  IF broken = {} THEN [headers |-> hs, body |-> body.s]
             ELSE IF policy = "strict" THEN Raise("HeaderWriteError")
             ELSE LET i == CHOOSE j \in broken : \A m \in broken : j <= m
                      at == BreakAt(hs[i].value)
                      v == hs[i].value
                  IN  [headers |-> SubSeq(hs, 1, i - 1)
                                   \o <<Header(hs[i].name, SubSeq(v, 1, at - 1))>>,
                       body |-> SubSeq(v, at + 1, Len(v)) \o <<LF>>
                                \o Flatten([j \in 1..(Len(hs) - i) |-> HeaderLine(hs[i + j])])
                                \o <<LF>> \o body.s]

\* base64.urlsafe_b64encode(...).decode() and its inverse
B64Encode(bytes) == [b64 |-> bytes]
B64Decode(raw) == raw.b64

\* behaviour of messages.send: a response with or without an id, or a raise
SendBehaviours == {"id", "noid", "HttpError"}

\* Credentials.from_authorized_user_info and build() work offline from the
\* three values just checked and issue no request; the only outbound call is
\* execute() on the send request.

\* fault variant: a failed send is tried once more
SendCallRetry(message, api) ==
    LET one == <<Req("messages.send",
                     [userId |-> "me", body |-> [raw |-> B64Encode(message)]], api)>>
    IN  IF api = "HttpError" THEN one \o one ELSE one

\* service.users().messages().send(userId="me", body=message_body).execute()
SendCall(message, api) ==
    <<Req("messages.send", [userId |-> "me", body |-> [raw |-> B64Encode(message)]],
          api)>>

gmail_send_email(input_data, e, api, policy) ==
    IF GmailCredsMissing(e)
    THEN Return(<<"Missing one or more Gmail OAuth credentials in environment variables!">>,
                <<>>)
    ELSE
    LET coerced == coerce_to_valid_json(input_data)
        input_json == json_loads(coerced.ret)
    IN  IF coerced.exc # "none" THEN Except("Error: ", coerced.exc, <<>>, FALSE)
        ELSE IF Failed(input_json) THEN Except("Error: ", input_json.s[1], <<>>, FALSE)
        ELSE IF input_json.t # "dict" THEN Except("Error: ", "AttributeError", <<>>, FALSE)
        ELSE
        LET to == Get(input_json, "to")
            subject == Get(input_json, "subject")
            body == Get(input_json, "body")
        IN  IF ~Truthy(to) \/ ~Truthy(subject) \/ ~Truthy(body)
            THEN Return(<<"Invalid input data! Ensure 'to', 'subject', and 'body' fields are provided.">>,
                        <<>>)
            ELSE
            LET message == MIMEMessage(to, subject, body, policy)
                send == SendCall(message, api)
            IN  IF IsRaise(message) THEN Except("Error: ", message.s[1], <<>>, FALSE)
                ELSE CASE api = "id" ->
                            Return(<<"Email sent successfully! Message ID: ", "m1">>, send)
                       [] api = "noid" -> Except("Error: ", "KeyError", send, FALSE)
                       [] OTHER -> Except("Error: ", api, send, FALSE)

(***************************************************************************)
(* google_calendar_list_events                                             *)
(***************************************************************************)
CalendarCredsMissing(e) ==
    ~(/\ EnvTruthy(getenv(e, "GOOGLE_CLIENT_ID"))
      /\ EnvTruthy(getenv(e, "GOOGLE_CLIENT_SECRET"))
      /\ EnvTruthy(getenv(e, "CALENDAR_REFRESH_TOKEN")))

\* behaviour of events.list: a raise, or events that carry start.dateTime,
\* only start.date and no summary, or no start at all
EventsBehaviours ==
    {[list |-> "HttpError", items |-> <<>>]}
    \cup {[list |-> "ok", items |-> g] :
            g \in SeqsUpTo({"timed", "allday", "nostart"}, MaxItems)}

EventLine(kind) ==
    IF kind = "timed" THEN <<"dt1", " - ", "sum1">> ELSE <<"d1", " - ", "No Title">>

google_calendar_list_events(query, e, api) ==
    LET list == <<Req("events.list",
                      [calendarId |-> "primary", maxResults |-> 5,
                       singleEvents |-> TRUE, orderBy |-> "startTime"],
                      api.list)>>
        n == Len(api.items)
    IN  IF CalendarCredsMissing(e)
        THEN Return(<<"Missing Google Calendar OAuth credentials in environment variables!">>,
                    <<>>)
        ELSE IF api.list # "ok" THEN Except("Error: ", api.list, list, FALSE)
        ELSE IF n = 0 THEN Return(<<"No upcoming events found.">>, list)
        ELSE IF \E i \in 1..n : api.items[i] = "nostart"
        THEN Except("Error: ", "KeyError", list, FALSE)
        ELSE Return(Join([i \in 1..n |-> EventLine(api.items[i])]), list)

(***************************************************************************)
(* google_calendar_create_event                                            *)
(***************************************************************************)
\* fault variant: 'end' is left out of the required fields
required_fields_no_end == <<"summary", "start">>

required_fields == <<"summary", "start", "end">>

\* `field not in event_data` for each required field in order: the first
\* field that is absent, "" when none is, or the TypeError of a value that
\* has no membership test
FirstMissing(event_data) ==
    IF event_data.t \in {"int", "bool", "none"} THEN "TypeError"
    ELSE LET has(f) ==
                 CASE event_data.t = "dict" -> HasKey(event_data.e, Key(f))
                   [] event_data.t = "str" -> \E i \in 1..Len(event_data.s) : event_data.s[i] = f
                   [] OTHER -> \E i \in 1..Len(event_data.e) : event_data.e[i] = Key(f)
             miss == {i \in 1..Len(required_fields) : ~has(required_fields[i])}
         IN  IF miss = {} THEN ""
             ELSE required_fields[CHOOSE i \in miss : \A j \in miss : i <= j]

GetDefault(d, name, default) ==
    IF HasKey(d.e, Key(name)) THEN Lookup(d.e, Key(name)) ELSE default

\* behaviour of events.insert: a dict with an id, a dict without one, a
\* response that is no dict, or a raise
InsertBehaviours == {"id", "noid", "str", "HttpError"}

\* fault variant: the input is normalized first, as gmail_send_email does
EventDecodeCoerced(input_data) == json_loads(coerce_to_valid_json(input_data).ret)

\* event_data = json.loads(input_data): the input is decoded as it stands
EventDecode(input_data) == json_loads(input_data)

google_calendar_create_event(input_data, e, api) ==
    IF CalendarCredsMissing(e)
    THEN Return(<<"Missing Google Calendar OAuth credentials in environment variables!">>,
                <<>>)
    ELSE
    LET event_data == EventDecode(input_data)
    IN  IF Failed(event_data) THEN Except("Error: ", event_data.s[1], <<>>, FALSE)
        ELSE IF FirstMissing(event_data) = "TypeError"
        THEN Except("Error: ", "TypeError", <<>>, FALSE)
        ELSE IF FirstMissing(event_data) # ""
        THEN Return(<<"Missing required field: ", FirstMissing(event_data)>>, <<>>)
        ELSE
        LET event == [summary |-> Get(event_data, "summary"),
                      location |-> GetDefault(event_data, "location", VStr(<<>>)),
                      description |-> GetDefault(event_data, "description", VStr(<<>>)),
                      start |-> Get(event_data, "start"),
                      end |-> Get(event_data, "end"),
                      reminders |-> [useDefault |-> TRUE]]
            insert == <<Req("events.insert", [calendarId |-> "primary", body |-> event],
                            api)>>
        IN  CASE api = "id" ->
                    Return(<<"Event created successfully! Event ID: ", "e1">>, insert)
              [] api \in {"noid", "str"} ->
                    Return(<<"Error: Unexpected response format. Response: ", api>>, insert)
              [] OTHER -> Except("Error: ", api, insert, FALSE)

(***************************************************************************)
(* Inputs the agent loop hands to the tools.                               *)
(***************************************************************************)
CalcInputs == {TExpr("1+2"), TExpr("1/0"), TExpr("x"), TExpr("1+"),
               TExpr("__import__('sys').exit()"), TEmpty, TJunk}
QueryInputs == {TEmpty, TExpr("label:unread")}

Null(q) == TKw(IF q = "dq" THEN "null" ELSE "None")
Absent == TJunk

\* a mapping display with the given field names, leaving out absent fields
RECURSIVE Members(_, _, _)
Members(q, names, vals) ==
    IF names = <<>> THEN <<>>
    ELSE (IF Head(vals) = Absent THEN <<>>
          ELSE <<KV(TStr(q, <<Head(names)>>), Head(vals))>>)
         \o Members(q, Tail(names), Tail(vals))

ToVals(q) == {Absent, TStr(q, <<"a">>), TStr(q, <<>>),
              TStr(q, <<"a", "\\n", "b">>), TSeq("list", <<"1">>)}
SubjectVals(q) == {Absent, TStr(q, <<"b">>), Null(q),
                   TStr(q, <<"a", "\\n", "b">>), TStr(q, <<"\\/">>)}
BodyVals(q) == {Absent, TStr(q, <<"/">>), TStr(q, <<"a", "\\n", "b">>),
                TStr(q, <<>>), TNum("5")}

EmailObjs(q) ==
    {TObj(Members(q, <<"to", "subject", "body">>, <<t, s, b>>)) :
        t \in ToVals(q), s \in SubjectVals(q), b \in BodyVals(q)}

EmailInputs ==
    {TEmpty, TJunk, TSeq("list", <<>>), TStr("dq", <<"a">>)}
    \cup EmailObjs("dq") \cup EmailObjs("sq")

EventObjs(q) ==
    {TObj(Members(q, <<"summary", "start", "end", "location", "description">>,
                  <<su, st, en, lo, de>>)) :
        su \in {Absent, TStr(q, <<"s">>)},
        st \in {Absent, TStr(q, <<"t0">>)},
        en \in {Absent, TStr(q, <<"t1">>), Null(q)},
        lo \in {Absent, TStr(q, <<"loc">>)},
        de \in {Absent, TStr(q, <<"desc">>)}}

EventInputs ==
    {TEmpty, TJunk, TSeq("list", <<>>), TNum("5"), TKw("null")}
    \cup EventObjs("dq") \cup EventObjs("sq")

(***************************************************************************)
(* State.                                                                  *)
(*   env      the process environment (read by every call, never written)  *)
(*   calls    number of tool invocations made by the agent loop            *)
(*   last     the latest invocation: tool, input and its outcome           *)
(*   total    send / insert requests issued so far, per API method         *)
(*   reached  per side-effecting tool, the calls so far whose returned     *)
(*            string reports the outcome of the send / insert request      *)
(*   norm     the normalizer applied on its own (SpecN)                    *)
(***************************************************************************)
Apis == {"messages.send", "events.insert"}
SideEffectTools == {"gmail_send_email", "google_calendar_create_event"}

NoCall == [tool |-> "none", input |-> TEmpty, ret |-> <<>>, exc |-> "none",
           reqs |-> <<>>, read |-> FALSE]

Count(reqs, api) == Cardinality({i \in 1..Len(reqs) : reqs[i].api = api})

\* the returned string reports what the send / insert request did
ReportsRequest(tool, ret) ==
    /\ ret # <<>>
    /\ \/ /\ tool = "gmail_send_email"
          /\ \/ ret[1] = "Email sent successfully! Message ID: "
             \/ ret[1] = "Error: " /\ ret[2] \in {"KeyError", "HttpError"}
       \/ /\ tool = "google_calendar_create_event"
          /\ \/ ret[1] = "Event created successfully! Event ID: "
             \/ ret[1] = "Error: Unexpected response format. Response: "
             \/ ret[1] = "Error: " /\ ret[2] = "HttpError"

Init ==
    /\ env \in Environments
    /\ calls = 0
    /\ last = NoCall
    /\ total = [a \in Apis |-> 0]
    /\ reached = [t \in SideEffectTools |-> 0]
    /\ norm = NormIdle

\* the agent loop runs one tool to completion and then reads its result; an
\* exception that leaves the tool ends the run
Idle == calls < MaxCalls /\ last.tool = "none"

Invoke(tool, input, out) ==
    /\ calls' = calls + 1
    /\ last' = [tool |-> tool, input |-> input, ret |-> out.ret, exc |-> out.exc,
                reqs |-> out.reqs, read |-> out.read]
    /\ total' = [a \in Apis |-> total[a] + Count(out.reqs, a)]
    /\ reached' = [t \in SideEffectTools |->
                     reached[t] + (IF t = tool /\ ReportsRequest(tool, out.ret)
                                   THEN 1 ELSE 0)]
    /\ UNCHANGED <<env, norm>>

Calculator ==
    /\ Idle
    /\ \E x \in CalcInputs :
         \E out \in {calculator(x)} : Invoke("calculator", x, out)

webSearch ==
    /\ Idle
    /\ \E x \in QueryInputs, http \in HttpBehaviours :
         \E out \in {web_search(x, env, http)} : Invoke("web_search", x, out)

gmailGetEmails ==
    /\ Idle
    /\ \E x \in QueryInputs, api \in ListBehaviours :
         \E out \in {gmail_get_emails(x, env, api)} :
            Invoke("gmail_get_emails", x, out)

GoogleCalendarListEvents ==
    /\ Idle
    /\ \E x \in QueryInputs, api \in EventsBehaviours :
         \E out \in {google_calendar_list_events(x, env, api)} :
            Invoke("google_calendar_list_events", x, out)

googleCalendarCreateEvent ==
    /\ Idle
    /\ \E x \in EventInputs, api \in InsertBehaviours :
         \E out \in {google_calendar_create_event(x, env, api)} :
            Invoke("google_calendar_create_event", x, out)

gmailSendEmail ==
    /\ Idle
    /\ \E x \in EmailInputs, api \in SendBehaviours, policy \in HeaderPolicies :
         \E out \in {gmail_send_email(x, env, api, policy)} :
            Invoke("gmail_send_email", x, out)

\* agent.run takes the returned string as its observation and goes on
AgentObserve ==
    /\ last.tool # "none"
    /\ last.exc = "none"
    /\ last' = NoCall
    /\ UNCHANGED <<env, calls, total, reached, norm>>

Next ==
    \/ AgentObserve
    \/ Calculator
    \/ webSearch
    \/ gmailGetEmails
    \/ GoogleCalendarListEvents
    \/ googleCalendarCreateEvent
    \/ gmailSendEmail

Spec == Init /\ [][Next]_vars

(***************************************************************************)
(* Specification of the normalizer alone: the input is drawn from          *)
(* NormInputs and coerce_to_valid_json is applied to it.                   *)
(***************************************************************************)
InitN ==
    /\ env = [v \in EnvVars |-> "unset"]
    /\ calls = 0
    /\ last = NoCall
    /\ total = [a \in Apis |-> 0]
    /\ reached = [t \in SideEffectTools |-> 0]
    /\ \E t \in NormInputs :
         norm = [phase |-> "arg", in |-> t, out |-> TEmpty, exc |-> "none"]

Normalize ==
    /\ norm.phase = "arg"
    /\ LET r == coerce_to_valid_json(norm.in)
       IN  norm' = [phase |-> "ret", in |-> norm.in, out |-> r.ret, exc |-> r.exc]
    /\ UNCHANGED <<env, calls, last, total, reached>>

NextN == Normalize

SpecN == InitN /\ [][NextN]_vars

(***************************************************************************)
(* Vocabulary of the properties, stated from the environment, the input    *)
(* and the recorded outcome of the latest call.                            *)
(***************************************************************************)
Required(tool) ==
    CASE tool = "web_search" -> {"GOOGLE_API_KEY", "GOOGLE_CSE_CX"}
      [] tool \in {"gmail_get_emails", "gmail_send_email"} ->
            {"GOOGLE_CLIENT_ID", "GOOGLE_CLIENT_SECRET", "GMAIL_REFRESH_TOKEN"}
      [] tool \in {"google_calendar_list_events", "google_calendar_create_event"} ->
            {"GOOGLE_CLIENT_ID", "GOOGLE_CLIENT_SECRET", "CALENDAR_REFRESH_TOKEN"}
      [] OTHER -> {}

CredsSet(tool) == \A v \in Required(tool) : env[v] \notin {"unset", ""}

MissingCredsMessage(tool) ==
    CASE tool = "web_search" -> "Google CSE API key or CX ID is missing"
      [] tool \in {"gmail_get_emails", "gmail_send_email"} ->
            "Missing one or more Gmail OAuth credentials in environment variables!"
      [] OTHER -> "Missing Google Calendar OAuth credentials in environment variables!"

ValidationMessage ==
    "Invalid input data! Ensure 'to', 'subject', and 'body' fields are provided."

\* what gmail_send_email decodes its input to
Decoded(x) == json_loads(coerce_to_valid_json(x).ret)

NonEmptyVal(v) ==
    \/ v.t = "str" /\ v.s # <<>>
    \/ v.t \in {"list", "tuple", "set", "dict"} /\ v.e # <<>>

NonEmptyText(v) == v.t = "str" /\ v.s # <<>>
HeaderText(v) == NonEmptyText(v) /\ ~HasBreak(v.s)

HasHeader(m, name, cs) ==
    \E i \in 1..Len(m.headers) : m.headers[i].name = name /\ m.headers[i].value = cs

\* the latest call issued exactly one request, a send whose message carries
\* the given recipient and subject
OneSendWith(to, subject) ==
    /\ Len(last.reqs) = 1
    /\ last.reqs[1].api = "messages.send"
    /\ LET m == B64Decode(last.reqs[1].arg.body.raw)
       IN  HasHeader(m, "to", to.s) /\ HasHeader(m, "subject", subject.s)

AnyAbsent(d, names) == \E n \in names : ~HasKey(d.e, Key(n))
AllPresent(d, names) == \A n \in names : HasKey(d.e, Key(n))

\* a mapping display written with single quotes throughout
SingleQuoted(x) ==
    /\ x.k = "obj"
    /\ x.kv # <<>>
    /\ \A i \in 1..Len(x.kv) :
         /\ x.kv[i].key.k = "str" => x.kv[i].key.q = "sq"
         /\ x.kv[i].val.k = "str" => x.kv[i].val.q = "sq"
    /\ \E i \in 1..Len(x.kv) : x.kv[i].key.k = "str" \/ x.kv[i].val.k = "str"

EmailFields == {"to", "subject", "body"}
EventFields == {"summary", "start", "end"}

(***************************************************************************)
(* C1.  Every tool call ends by returning a string; no exception leaves    *)
(* the tool function, whatever the input, the environment and the          *)
(* behaviour of the remote API.                                            *)
(***************************************************************************)
C1_NeverRaises ==
    last.tool # "none" => (last.exc = "none" /\ last.ret # <<>>)

(***************************************************************************)
(* C2 as stated.  With credentials set, an input that decodes to an object *)
(* with non-empty to, subject and body leads to exactly one send whose     *)
(* message has that to and subject; an object with one of the three        *)
(* missing leads to the validation message and no outbound call.           *)
(***************************************************************************)
C2_Original ==
    (/\ last.tool = "gmail_send_email"
     /\ CredsSet("gmail_send_email")
     /\ Decoded(last.input).t = "dict")
    => LET d == Decoded(last.input)
           to == Get(d, "to")
           subject == Get(d, "subject")
           body == Get(d, "body")
       IN  /\ (NonEmptyVal(to) /\ NonEmptyVal(subject) /\ NonEmptyVal(body))
                => OneSendWith(to, subject)
           /\ AnyAbsent(d, EmailFields)
                => (last.ret = <<ValidationMessage>> /\ last.reqs = <<>>)

(***************************************************************************)
(* C2 amended.  With credentials set, an input that decodes to an object   *)
(* whose to and subject are non-empty strings without a line break and     *)
(* whose body is a non-empty string leads to exactly one send whose        *)
(* message has that to and subject; an object with one of the three        *)
(* missing leads to the validation message and no outbound call.           *)
(***************************************************************************)
C2_Amended ==
    (/\ last.tool = "gmail_send_email"
     /\ CredsSet("gmail_send_email")
     /\ Decoded(last.input).t = "dict")
    => LET d == Decoded(last.input)
           to == Get(d, "to")
           subject == Get(d, "subject")
           body == Get(d, "body")
       IN  /\ (HeaderText(to) /\ HeaderText(subject) /\ NonEmptyText(body))
                => OneSendWith(to, subject)
           /\ AnyAbsent(d, EmailFields)
                => (last.ret = <<ValidationMessage>> /\ last.reqs = <<>>)

C2_Witness ==
    /\ last.tool = "gmail_send_email"
    /\ Decoded(last.input).t = "dict"
    /\ HeaderText(Get(Decoded(last.input), "to"))
    /\ HeaderText(Get(Decoded(last.input), "subject"))
    /\ last.ret = <<"Email sent successfully! Message ID: ", "m1">>
    /\ Len(last.reqs) = 1

C4_Original ==
    (/\ last.tool = "google_calendar_create_event"
     /\ CredsSet("google_calendar_create_event")
     /\ json_loads(last.input).t = "dict"
     /\ ~HasKey(json_loads(last.input).e, Key("end")))
    => /\ last.ret = <<"Missing required field: ", "end">>
       /\ last.reqs = <<>>

(***************************************************************************)
(* C4 amended.  With credentials set, a JSON object without `end` gives    *)
(* "Missing required field: f" and no outbound call, where f is the first  *)
(* of summary, start, end that the object lacks; f is `end` exactly when   *)
(* summary and start are both present.                                     *)
(***************************************************************************)
C4_Amended ==
    (/\ last.tool = "google_calendar_create_event"
     /\ CredsSet("google_calendar_create_event")
     /\ json_loads(last.input).t = "dict"
     /\ ~HasKey(json_loads(last.input).e, Key("end")))
    => LET d == json_loads(last.input)
           f == IF ~HasKey(d.e, Key("summary")) THEN "summary"
                ELSE IF ~HasKey(d.e, Key("start")) THEN "start"
                ELSE "end"
       IN  /\ last.ret = <<"Missing required field: ", f>>
           /\ last.reqs = <<>>

C4_Witness ==
    /\ last.tool = "google_calendar_create_event"
    /\ json_loads(last.input).t = "dict"
    /\ HasKey(json_loads(last.input).e, Key("summary"))
    /\ HasKey(json_loads(last.input).e, Key("location"))
    /\ last.ret = <<"Missing required field: ", "end">>

(***************************************************************************)
(* C5.  A send or insert request is issued once by a call that reaches the *)
(* send / insert step and by no other call: there is no retry and no       *)
(* suppression of duplicates, so after any sequence of calls the number of *)
(* send (insert) requests equals the number of calls whose result reports  *)
(* the outcome of that request.                                            *)
(***************************************************************************)
C5_SideEffectsOncePerCall ==
    /\ total["messages.send"] = reached["gmail_send_email"]
    /\ total["events.insert"] = reached["google_calendar_create_event"]
    /\ last.tool # "none" =>
         /\ Count(last.reqs, "messages.send") =
              (IF last.tool = "gmail_send_email" /\ ReportsRequest(last.tool, last.ret)
               THEN 1 ELSE 0)
         /\ Count(last.reqs, "events.insert") =
              (IF last.tool = "google_calendar_create_event"
                  /\ ReportsRequest(last.tool, last.ret)
               THEN 1 ELSE 0)

C5_Witness ==
    /\ calls = 2
    /\ total["messages.send"] = 2
    /\ last.tool = "gmail_send_email"
    /\ last.ret = <<"Email sent successfully! Message ID: ", "m1">>

(***************************************************************************)
(* C6.  web_search with credentials set issues exactly one HTTP GET; when  *)
(* the status is not 200 the returned string contains the status code, the *)
(* response body is not read and no further call is made.                  *)
(***************************************************************************)
C6_WebSearchOneGet ==
    (last.tool = "web_search" /\ CredsSet("web_search"))
    => /\ Len(last.reqs) = 1
       /\ last.reqs[1].api = "customsearch.get"
       /\ last.reqs[1].resp \in {"404", "500"}
            => /\ \E i \in 1..Len(last.ret) : last.ret[i] = last.reqs[1].resp
               /\ ~last.read

C6_Witness ==
    /\ last.tool = "web_search"
    /\ Len(last.reqs) = 1
    /\ last.reqs[1].resp = "404"
    /\ last.ret = <<"Error: Unable to fetch search results. Status Code: ", "404">>

(***************************************************************************)
(* C7.  For every valid JSON input the normalizer returns a string that    *)
(* decodes as JSON to a value equal to the value the input decodes to.     *)
(***************************************************************************)
C7_ValidJsonRoundTrip ==
    (norm.phase = "ret" /\ ~Failed(json_loads(norm.in)))
    => /\ ~Failed(json_loads(norm.out))
       /\ DeepEq(json_loads(norm.out), json_loads(norm.in))

(***************************************************************************)
(* C8 as stated.  For every Python-literal mapping written with single     *)
(* quotes the normalizer returns strict JSON that decodes to the mapping   *)
(* the literal denotes.                                                    *)
(***************************************************************************)
C8_Original ==
    (/\ norm.phase = "ret"
     /\ SingleQuoted(norm.in)
     /\ ~Failed(literal_eval(norm.in)))
    => /\ ~Failed(json_loads(norm.out))
       /\ DeepEq(json_loads(norm.out), literal_eval(norm.in))

\* keys are strings and values are strings, integers, True, False, None or
\* lists of these
JsonShaped(v) ==
    /\ v.t = "dict"
    /\ \A i \in 1..Len(v.e) :
         /\ v.e[i].key.t = "str"
         /\ v.e[i].val.t \in {"str", "int", "bool", "none", "list"}

(***************************************************************************)
(* C8 amended.  For every Python-literal mapping written with single       *)
(* quotes whose keys are strings and whose values are strings, numbers,    *)
(* True, False, None or lists, the normalizer returns strict JSON that     *)
(* decodes to the mapping the literal denotes.                             *)
(***************************************************************************)
C8_Amended ==
    (/\ norm.phase = "ret"
     /\ SingleQuoted(norm.in)
     /\ ~Failed(literal_eval(norm.in))
     /\ JsonShaped(literal_eval(norm.in)))
    => /\ ~Failed(json_loads(norm.out))
       /\ DeepEq(json_loads(norm.out), literal_eval(norm.in))

C8_Witness ==
    /\ norm.phase = "ret"
    /\ norm.in = TObj(<<KV(TStr("sq", <<"a">>), TStr("sq", <<"a">>)),
                        KV(TStr("sq", <<"b">>), TKw("None"))>>)
    /\ norm.out = TObj(<<KV(TStr("dq", <<"a">>), TStr("dq", <<"a">>)),
                         KV(TStr("dq", <<"b">>), TKw("null"))>>)

(***************************************************************************)
(* C9.  For every input that does not parse as a literal, or whose value   *)
(* cannot be serialized, the normalizer returns the input unchanged and    *)
(* raises nothing.                                                         *)
(***************************************************************************)
C9_FallbackUnchanged ==
    (/\ norm.phase = "ret"
     /\ \/ Failed(literal_eval(norm.in))
        \/ IsRaise(json_dumps(literal_eval(norm.in))))
    => (norm.out = norm.in /\ norm.exc = "none")

C9_Witness ==
    /\ norm.phase = "ret"
    /\ norm.in = TJunk
    /\ norm.out = TJunk
    /\ norm.exc = "none"

(***************************************************************************)
(* C10 as stated.  For a single-quoted mapping that carries all required   *)
(* fields gmail_send_email goes on to its send request, while              *)
(* google_calendar_create_event returns an "Error:" string and issues no   *)
(* request; for strict JSON with all required fields the calendar tool     *)
(* issues exactly one insert, with location and description defaulted to   *)
(* empty and default reminders on.                                         *)
(***************************************************************************)
InsertAsDecoded(d) ==
    /\ Len(last.reqs) = 1
    /\ last.reqs[1].api = "events.insert"
    /\ LET b == last.reqs[1].arg.body
       IN  /\ b.summary = Lookup(d.e, Key("summary"))
           /\ b.start = Lookup(d.e, Key("start"))
           /\ b.end = Lookup(d.e, Key("end"))
           /\ b.location = (IF HasKey(d.e, Key("location"))
                            THEN Lookup(d.e, Key("location")) ELSE VStr(<<>>))
           /\ b.description = (IF HasKey(d.e, Key("description"))
                               THEN Lookup(d.e, Key("description")) ELSE VStr(<<>>))
           /\ b.reminders = [useDefault |-> TRUE]

CalendarPart ==
    (last.tool = "google_calendar_create_event"
     /\ CredsSet("google_calendar_create_event"))
    => /\ (/\ SingleQuoted(last.input)
           /\ ~Failed(literal_eval(last.input))
           /\ AllPresent(literal_eval(last.input), EventFields))
          => (last.ret[1] = "Error: " /\ last.reqs = <<>>)
       /\ (/\ json_loads(last.input).t = "dict"
           /\ AllPresent(json_loads(last.input), EventFields))
          => InsertAsDecoded(json_loads(last.input))

C10_Original ==
    /\ CalendarPart
    /\ (/\ last.tool = "gmail_send_email"
        /\ CredsSet("gmail_send_email")
        /\ SingleQuoted(last.input)
        /\ Decoded(last.input).t = "dict"
        /\ \A n \in EmailFields : NonEmptyVal(Get(Decoded(last.input), n)))
       => Count(last.reqs, "messages.send") = 1

(***************************************************************************)
(* C10 amended.  As stated, where the single-quoted mapping given to       *)
(* gmail_send_email carries to and subject as non-empty strings without a  *)
(* line break and body as a non-empty string.                              *)
(***************************************************************************)
C10_Amended ==
    /\ CalendarPart
    /\ (/\ last.tool = "gmail_send_email"
        /\ CredsSet("gmail_send_email")
        /\ SingleQuoted(last.input)
        /\ Decoded(last.input).t = "dict"
        /\ HeaderText(Get(Decoded(last.input), "to"))
        /\ HeaderText(Get(Decoded(last.input), "subject"))
        /\ NonEmptyText(Get(Decoded(last.input), "body")))
       => Count(last.reqs, "messages.send") = 1

C10_Witness ==
    /\ total["messages.send"] = 1
    /\ last.tool = "google_calendar_create_event"
    /\ CredsSet("google_calendar_create_event")
    /\ SingleQuoted(last.input)
    /\ AllPresent(literal_eval(last.input), EventFields)
    /\ last.ret = <<"Error: ", "JSONDecodeError">>
    /\ last.reqs = <<>>

====
